---- MODULE Spec2Model ----
(***************************************************************************)
(* Model of src/src/loadgen.py: the workload generators, their execution   *)
(* units (daemon threads), the LoadGeneratorManager, its signal handler    *)
(* and the run loop of main().                                             *)
(*                                                                         *)
(* The main thread is a stack of frames: the bottom frame is main() (or,   *)
(* in SpecApi, a caller of the Manager's methods) and every frame above it *)
(* is one activation of _signal_handler, which CPython runs on the main    *)
(* thread between two bytecodes of whatever the main thread was doing.     *)
(* Worker threads interleave freely with the main thread.  Time is a       *)
(* counter of whole seconds (int(time.time())); how long any step takes is *)
(* not constrained, so thread.join(timeout=5) may return with the thread   *)
(* still alive at any moment.                                              *)
(***************************************************************************)
EXTENDS Naturals, Sequences, FiniteSets

VARIABLES
    gens,             \* every WorkloadGenerator object ever constructed, by id
    workloads,        \* LoadGeneratorManager.workloads (insertion-ordered dict)
    running,          \* LoadGeneratorManager.running
    signal_received,  \* LoadGeneratorManager.signal_received
    stack,            \* frames of the main thread, innermost last
    proc,             \* "running" | "exited"
    exit_code,        \* the process's exit status once exited
    fs,               \* files under /tmp: pairs <<path, generator that wrote it>>
    now,              \* int(time.time())
    start_time,       \* main(): start_time
    errors,           \* ERROR_COUNT, by workload_type label
    env_type,         \* WORKLOAD_TYPE of the environment
    env_intensity,    \* LOAD_INTENSITY of the environment
    hist              \* history: calls and returns of stop_all / cleanup_all,
                      \* how the last call of the caller of SpecApi ended,
                      \* artifacts released by cleanup()

vars == <<gens, workloads, running, signal_received, stack, proc, exit_code,
          fs, now, start_time, errors, env_type, env_intensity, hist>>

----------------------------------------------------------------------------
(* Bounds of the exploration *)

\* psutil.cpu_count() of the host
NumCpus == 1
\* DURATION of the environment, in seconds
Duration == 1
\* most chunks one MemoryWorkload and most paths one StorageWorkload retains
MaxRetained == 1
\* most errors raised inside loop iterations and the polling loop
MaxErrors == 1
\* most termination signals delivered
MaxSignals == 2
\* most Manager calls made by the caller of SpecApi
MaxOps == 4
\* most execution units the generators added in SpecApi may own together
MaxUnits == 4

\* last second the clock reaches
MaxTime == Duration

(* Program constants *)

\* NetworkWorkload.start: range(3)
NetworkThreads == 3

LeafTypes == {"cpu", "memory", "network", "storage"}

\* values of LOAD_INTENSITY (after .lower()): the four keys of
\* intensity_levels and labels that are not keys
IntensityLabels == {"low", "medium", "high", "custom", "extreme", "max", ""}

\* keys of workload_map in add_workload
WorkloadTypes == LeafTypes \cup {"mixed"}

\* the order in which MixedWorkload.__init__ constructs its children
MixedChildren == <<"cpu", "memory", "network", "storage">>

----------------------------------------------------------------------------
(* Generators *)

\* self.intensity_levels of WorkloadGenerator.__init__
intensity_levels ==
    [label \in {"low", "medium", "high", "custom"} |->
        CASE label = "low" -> [cpu_percent |-> 20, memory_mb |-> 100, duration |-> 30]
          [] label = "medium" -> [cpu_percent |-> 50, memory_mb |-> 250, duration |-> 60]
          [] label = "high" -> [cpu_percent |-> 80, memory_mb |-> 500, duration |-> 120]
          [] label = "custom" -> [cpu_percent |-> 70, memory_mb |-> 300, duration |-> 90]]

\* mutant: a lookup whose default is the lowest row
ConfigDefaultLow(intensity) ==
    IF intensity \in DOMAIN intensity_levels
    THEN intensity_levels[intensity] ELSE intensity_levels["low"]

\* self.intensity_levels.get(intensity, self.intensity_levels["medium"])
Config(intensity) ==
    IF intensity \in DOMAIN intensity_levels
    THEN intensity_levels[intensity] ELSE intensity_levels["medium"]

\* WorkloadGenerator.__init__ and the subclasses' __init__: a fresh object.
\* key is the Manager key the object was constructed for and life the
\* lifecycle calls it has received so far (both history).
NewGen(kind, key) ==
    [kind |-> kind, key |-> key, running |-> FALSE, threads |-> <<>>,
     intensity |-> env_intensity, config |-> Config(env_intensity),
     memory_chunks |-> 0, temp_files |-> <<>>, workloads |-> <<>>,
     life |-> "idle"]

\* how many threads start() of a generator of this kind spawns
ThreadCount(kind) ==
    CASE kind = "cpu" -> NumCpus
      [] kind = "memory" -> 1
      [] kind = "network" -> NetworkThreads
      [] kind = "storage" -> 1
      [] OTHER -> 0

\* threading.Thread(target=...): a started thread is at its loop-top check
NewThread == [pc |-> "top", filename |-> 0]

\* thread.is_alive()
IsAlive(th) == th.pc # "done"

GenIds == 1..Len(gens)

RECURSIVE SeqSum(_)
SeqSum(s) == IF s = <<>> THEN 0 ELSE Head(s) + SeqSum(Tail(s))

Range(s) == {s[n] : n \in 1..Len(s)}

\* errors counted so far by the except clauses, over all labels
Raised == SeqSum([n \in 1..Len(MixedChildren) |-> errors[MixedChildren[n]]]) + errors["mixed"]

\* self.workloads.values(), in dict order
Values == [n \in 1..Len(workloads) |-> workloads[n].gen]

\* the objects a start()/stop() of generator g touches, in call order:
\* the object itself (super().start()/super().stop()), then a Mixed's children
SelfThenChildren(g) == <<g>> \o gens[g].workloads

\* the objects a cleanup() of generator g touches, in call order:
\* a Mixed's children, then the object itself (super().cleanup())
ChildrenThenSelf(g) == gens[g].workloads \o <<g>>

RECURSIVE StartStopOrderOf(_)
StartStopOrderOf(ids) ==
    IF ids = <<>> THEN <<>>
    ELSE SelfThenChildren(Head(ids)) \o StartStopOrderOf(Tail(ids))

RECURSIVE CleanupOrderOf(_)
CleanupOrderOf(ids) ==
    IF ids = <<>> THEN <<>>
    ELSE ChildrenThenSelf(Head(ids)) \o CleanupOrderOf(Tail(ids))

\* for workload in self.workloads.values(): workload.start() / .stop()
StartStopOrder == StartStopOrderOf(Values)

\* for workload in self.workloads.values(): workload.cleanup()
CleanupOrder == CleanupOrderOf(Values)

----------------------------------------------------------------------------
(* The main thread's frames *)

Frame(fn, pc) == [fn |-> fn, pc |-> pc, i |-> 0, k |-> 0]

Top == stack[Len(stack)]

SetTop(f) == [stack EXCEPT ![Len(stack)] = f]

Goto(pc) == SetTop([Top EXCEPT !.pc = pc, !.i = 0, !.k = 0])

\* positions of main() from which an exception reaches the finally clause
TryPcs == {"start_all", "starting", "poll", "sleep"}

Enter(pc) == SetTop([Top EXCEPT !.pc = pc, !.i = 1, !.k = 0])

\* the cursor <<i, k>> of a start_all/stop_all walk, moved past unit k of n
Advance(f, n) ==
    IF f.k < n THEN [f EXCEPT !.k = f.k + 1] ELSE [f EXCEPT !.i = f.i + 1, !.k = 0]

\* where a frame continues when the Manager call it made returns
AfterCall(fn, call) ==
    CASE fn = "main" /\ call = "start_all" -> "poll"
      [] fn = "main" /\ call = "stop_all" -> "cleanup_all"
      [] fn = "main" /\ call = "cleanup_all" -> "return"
      [] fn = "handler" -> "h_exit"
      [] OTHER -> "idle"

\* what the caller of SpecApi observes of the call that ends: "returned",
\* "warned" (returned after logger.warning) or the exception raised; main()
\* and the handler observe nothing
Outcome(fn, o) == IF fn = "api" THEN o ELSE hist.outcome

Alive == proc = "running" /\ stack # <<>>

At(pcs) == Alive /\ Top.pc \in pcs

----------------------------------------------------------------------------
(* LoadGeneratorManager.add_workload *)

\* workload_class(intensity): the objects the constructor creates
GensAfterAdd(type) ==
    LET n == Len(gens) IN
    IF type = "mixed"
    THEN gens \o <<[NewGen("mixed", type) EXCEPT
                       !.workloads = [c \in 1..Len(MixedChildren) |-> n + 1 + c]]>>
              \o [c \in 1..Len(MixedChildren) |-> NewGen(MixedChildren[c], type)]
    ELSE Append(gens, NewGen(type, type))

\* mutant: the new object is stored as one more entry even under a present key
WorkloadsAlwaysAppended(type) ==
    Append(workloads, [key |-> type, gen |-> Len(gens) + 1])

\* self.workloads[workload_type] = ...: a present key keeps its place in the dict
WorkloadsAfterAdd(type) ==
    LET id == Len(gens) + 1 IN
    IF \E n \in 1..Len(workloads) : workloads[n].key = type
    THEN [n \in 1..Len(workloads) |->
             IF workloads[n].key = type THEN [key |-> type, gen |-> id] ELSE workloads[n]]
    ELSE Append(workloads, [key |-> type, gen |-> id])

\* main(): manager.add_workload(workload_type, load_intensity), before the try.
\* An unknown type raises ValueError, which nothing catches.
MainAdd ==
    /\ At({"add"}) /\ Top.fn = "main"
    /\ IF env_type \in WorkloadTypes
       THEN /\ gens' = GensAfterAdd(env_type)
            /\ workloads' = WorkloadsAfterAdd(env_type)
            /\ stack' = Goto("start_all")
            /\ UNCHANGED <<proc, exit_code>>
       ELSE /\ proc' = "exited" /\ exit_code' = 1
            /\ UNCHANGED <<gens, workloads, stack>>
    /\ UNCHANGED <<running, signal_received, fs, now, start_time, errors, env_type, env_intensity, hist>>

----------------------------------------------------------------------------
(* LoadGeneratorManager.start_all and the generators' start() *)

\* WorkloadGenerator.start: self.running = True
GenStart(g) == [gens EXCEPT ![g].running = TRUE, ![g].life = "started"]

\* thread.start(); self.threads.append(thread)
GenSpawn(g) == [gens EXCEPT ![g].threads = Append(@, NewThread)]

\* mutant: start_all without the test for an empty dict
StartAllWithoutTest ==
    /\ At({"start_all"})
    /\ running' = TRUE
    /\ stack' = Enter("starting")
    /\ hist' = [hist EXCEPT !.start_calls = @ + 1]
    /\ UNCHANGED <<gens, workloads, signal_received, proc, exit_code, fs, now,
                   start_time, errors, env_type, env_intensity>>

\* start_all: an empty dict is a warning and a return; else self.running = True
StartAllCall ==
    /\ At({"start_all"})
    /\ IF workloads = <<>>
       THEN /\ stack' = Goto(AfterCall(Top.fn, "start_all"))
            /\ UNCHANGED running
       ELSE /\ running' = TRUE
            /\ stack' = Enter("starting")
    /\ start_time' = IF workloads = <<>> /\ Top.fn = "main" THEN now ELSE start_time
    /\ hist' = [hist EXCEPT !.start_calls = @ + 1,
                            !.outcome = IF workloads = <<>>
                                        THEN Outcome(Top.fn, "warned") ELSE @]
    /\ UNCHANGED <<gens, workloads, signal_received, proc, exit_code, fs, now,
                   errors, env_type, env_intensity>>

\* one step of the walk over workloads.values(): super().start() of the next
\* object, or the spawn of its next thread; at the end start_all returns
\* (in main(), start_time = time.time() follows)
StartStep ==
    /\ At({"starting"})
    /\ LET f == Top
           ord == StartStopOrder
       IN IF f.i > Len(ord)
          THEN /\ stack' = Goto(AfterCall(f.fn, "start_all"))
               /\ start_time' = IF f.fn = "main" THEN now ELSE start_time
               /\ hist' = [hist EXCEPT !.outcome = Outcome(f.fn, "returned")]
               /\ UNCHANGED gens
          ELSE LET g == ord[f.i] IN
               /\ gens' = IF f.k = 0 THEN GenStart(g) ELSE GenSpawn(g)
               /\ stack' = SetTop(Advance(f, ThreadCount(gens[g].kind)))
               /\ UNCHANGED <<start_time, hist>>
    /\ UNCHANGED <<workloads, running, signal_received, proc, exit_code, fs, now,
                   errors, env_type, env_intensity>>

\* thread.start() raises RuntimeError (the system cannot create the thread).
\* Nothing in start(), MixedWorkload.start or start_all catches it: the rest
\* of the walk is skipped.  main() catches it in except Exception (the
\* counter, then the finally clause); the caller of SpecApi receives it.
StartRaise ==
    /\ At({"starting"})
    /\ Top.i <= Len(StartStopOrder) /\ Top.k > 0
    /\ Top.fn = "main" => Raised < MaxErrors
    /\ IF Top.fn = "main"
       THEN /\ errors' = [errors EXCEPT ![env_type] = @ + 1]
            /\ stack' = Goto("stop_all")
            /\ UNCHANGED hist
       ELSE /\ stack' = Goto(AfterCall(Top.fn, "start_all"))
            /\ hist' = [hist EXCEPT !.outcome = Outcome(Top.fn, "RuntimeError")]
            /\ UNCHANGED errors
    /\ UNCHANGED <<gens, workloads, running, signal_received, proc, exit_code, fs,
                   now, start_time, env_type, env_intensity>>

----------------------------------------------------------------------------
(* LoadGeneratorManager.stop_all and the generators' stop() *)

\* mutant: stop() waits for the threads but leaves self.running set
GenStopFlagKept(g) == gens

\* WorkloadGenerator.stop: self.running = False
GenStopFlag(g) == [gens EXCEPT ![g].running = FALSE]

\* mutant: thread.join() without a timeout returns only once the thread exited
JoinWithoutTimeout(th) == ~IsAlive(th)

\* if thread.is_alive(): thread.join(timeout=5) returns: the thread was not
\* alive, or it exited during the wait, or the 5 seconds elapsed (which no
\* state of the thread prevents)
JoinReturns(th) == ~IsAlive(th) \/ TRUE

\* mutant: a stop() that forgets its threads once it has waited for them
GenStoppedForgets(gs, g) ==
    [gs EXCEPT ![g].threads = <<>>, ![g].life = IF @ = "started" THEN "stopped" ELSE @]

\* logger.info("Stopped ...") of an object whose threads have all been waited for
GenStopped(gs, g) ==
    [gs EXCEPT ![g].life = IF @ = "started" THEN "stopped" ELSE @]

\* the call of stop_all: self.running = False.  It is made by the run loop's
\* finally clause, by the signal handler and by the caller of SpecApi.
StopAllEnter ==
    /\ running' = FALSE
    /\ stack' = Enter("stopping")
    /\ hist' = [hist EXCEPT !.stop_calls = @ + 1]

\* manager.stop_all() in the finally clause of main(), self.stop_all() in
\* the signal handler, or the call made by the caller of SpecApi
StopAllCall ==
    /\ At({"stop_all"})
    /\ StopAllEnter
    /\ UNCHANGED <<gens, workloads, signal_received, proc, exit_code, fs, now,
                   start_time, errors, env_type, env_intensity>>

\* one step of the walk of stop_all: self.running = False of the next object,
\* or the wait for its next thread; at the end stop_all returns
StopStep ==
    /\ At({"stopping"})
    /\ LET f == Top
           ord == StartStopOrder
       IN IF f.i > Len(ord)
          THEN /\ stack' = Goto(AfterCall(f.fn, "stop_all"))
               /\ hist' = [hist EXCEPT !.stop_rets = @ + 1,
                                        !.handler_rets = IF f.fn = "handler" THEN @ + 1 ELSE @,
                                        !.outcome = Outcome(f.fn, "returned")]
               /\ UNCHANGED gens
          ELSE LET g == ord[f.i]
                   n == Len(gens[g].threads)
                   flagged == IF f.k = 0 THEN GenStopFlag(g) ELSE gens
               IN /\ f.k > 0 => JoinReturns(gens[g].threads[f.k])
                  /\ gens' = IF f.k = n THEN GenStopped(flagged, g) ELSE flagged
                  /\ stack' = SetTop(Advance(f, n))
                  /\ UNCHANGED hist
    /\ UNCHANGED <<workloads, running, signal_received, proc, exit_code, fs, now,
                   start_time, errors, env_type, env_intensity>>

----------------------------------------------------------------------------
(* LoadGeneratorManager.cleanup_all and the generators' cleanup() *)

\* os.remove of every retained path that exists
FsAfterCleanup(g) == {x \in fs : x[1] \notin Range(gens[g].temp_files)}

\* the chunks and paths cleanup() of generator g drops from its lists
Released(g) == gens[g].memory_chunks + Len(gens[g].temp_files)

\* mutant: a cleanup() that leaves a fresh buffer behind when the list was empty
GenCleanupRefills(g) ==
    [gens EXCEPT ![g].memory_chunks = IF @ = 0 THEN 1 ELSE 0, ![g].temp_files = <<>>,
                 ![g].life = IF @ = "stopped" THEN "cleaned" ELSE @]

\* MemoryWorkload.cleanup: memory_chunks.clear(); StorageWorkload.cleanup:
\* temp_files.clear() after the removals; the other classes: pass
GenCleanup(g) ==
    [gens EXCEPT ![g].memory_chunks = 0, ![g].temp_files = <<>>,
                 ![g].life = IF @ = "stopped" THEN "cleaned" ELSE @]

\* main(): manager.cleanup_all(), right after stop_all returned
CleanupAllCall ==
    /\ At({"cleanup_all"})
    /\ stack' = Enter("cleaning")
    /\ hist' = [hist EXCEPT !.cleanup_calls = @ + 1]
    /\ UNCHANGED <<gens, workloads, running, signal_received, proc, exit_code, fs,
                   now, start_time, errors, env_type, env_intensity>>

\* one step of the walk of cleanup_all: cleanup() of the next object; at the
\* end cleanup_all returns
CleanupStep ==
    /\ At({"cleaning"})
    /\ LET f == Top
           ord == CleanupOrder
       IN IF f.i > Len(ord)
          THEN /\ stack' = Goto(AfterCall(f.fn, "cleanup_all"))
               /\ hist' = [hist EXCEPT !.cleanup_rets = @ + 1,
                                        !.outcome = Outcome(f.fn, "returned")]
               /\ UNCHANGED <<gens, fs>>
          ELSE /\ gens' = GenCleanup(ord[f.i])
               /\ fs' = FsAfterCleanup(ord[f.i])
               /\ stack' = SetTop([f EXCEPT !.i = f.i + 1])
               /\ hist' = [hist EXCEPT !.released = @ + Released(ord[f.i])]
    /\ UNCHANGED <<workloads, running, signal_received, proc, exit_code, now,
                   start_time, errors, env_type, env_intensity>>

----------------------------------------------------------------------------
(* The run loop of main() *)

\* mutant: a loop test that gives up one second early
PollContinuesShort == now - start_time + 1 < Duration /\ ~signal_received

\* while time.time() - start_time < duration and not manager.signal_received
PollContinues == now - start_time < Duration /\ ~signal_received

\* the loop test: into the body, or past the loop to the finally clause,
\* whose first statement is manager.stop_all()
MainPoll ==
    /\ At({"poll"})
    /\ stack' = Goto(IF PollContinues THEN "sleep" ELSE "stop_all")
    /\ UNCHANGED <<gens, workloads, running, signal_received, proc, exit_code, fs,
                   now, start_time, errors, env_type, env_intensity, hist>>

\* the loop body: time.sleep(1) and the progress log
MainSleep ==
    /\ At({"sleep"})
    /\ stack' = Goto("poll")
    /\ UNCHANGED <<gens, workloads, running, signal_received, proc, exit_code, fs,
                   now, start_time, errors, env_type, env_intensity, hist>>

\* an Exception raised inside the loop body and the except clause that
\* catches it: ERROR_COUNT.labels(workload_type=workload_type).inc()
MainExcept ==
    /\ At({"sleep"})
    /\ Raised < MaxErrors
    /\ errors' = [errors EXCEPT ![env_type] = @ + 1]
    /\ stack' = Goto("stop_all")
    /\ UNCHANGED <<gens, workloads, running, signal_received, proc, exit_code, fs,
                   now, start_time, env_type, env_intensity, hist>>

\* the end of the finally clause: main() returns (or the SystemExit that
\* brought control here goes on) and the interpreter exits with status 0,
\* which ends the daemon threads
MainReturn ==
    /\ At({"return"})
    /\ proc' = "exited" /\ exit_code' = 0
    /\ UNCHANGED <<gens, workloads, running, signal_received, stack, fs, now,
                   start_time, errors, env_type, env_intensity, hist>>

----------------------------------------------------------------------------
(* LoadGeneratorManager._signal_handler *)

\* The frames a handler activation interrupts never resume (the handler ends
\* in sys.exit).  Of an interrupted frame only this is kept: whether it is
\* inside main()'s try statement ("try"), inside stop_all ("stopping"), or
\* anywhere else ("held")
Suspended(st) ==
    [n \in 1..Len(st) |->
        [st[n] EXCEPT !.i = 0, !.k = 0,
                      !.pc = IF st[n].fn = "main" /\ @ \in TryPcs THEN "try"
                             ELSE IF @ \in {"stopping", "try"} THEN @ ELSE "held"]]

\* SIGINT or SIGTERM is delivered: the handler installed by __init__ is
\* entered on the main thread, on top of whatever it was executing
Signal ==
    /\ Alive
    /\ hist.signals < MaxSignals
    /\ stack' = Append(Suspended(stack), Frame("handler", "h_flag"))
    /\ hist' = [hist EXCEPT !.signals = @ + 1]
    /\ UNCHANGED <<gens, workloads, running, signal_received, proc, exit_code, fs,
                   now, start_time, errors, env_type, env_intensity>>

\* mutant: the handler sets the flag and exits without calling stop_all
HandlerWithoutStop ==
    /\ At({"h_flag"})
    /\ signal_received' = TRUE
    /\ stack' = Goto("h_exit")
    /\ UNCHANGED <<gens, workloads, running, proc, exit_code, fs, now, start_time,
                   errors, env_type, env_intensity, hist>>

\* self.signal_received = True
HandlerFlag ==
    /\ At({"h_flag"})
    /\ signal_received' = TRUE
    /\ stack' = Goto("stop_all")
    /\ UNCHANGED <<gens, workloads, running, proc, exit_code, fs, now, start_time,
                   errors, env_type, env_intensity, hist>>

\* mutant: the interrupted try statement is begun again after the handler
StackAfterExitRetries ==
    IF stack[1].fn = "main" /\ stack[1].pc = "try"
    THEN <<Frame("main", "start_all")>>
    ELSE <<>>

\* the frames left once SystemExit has unwound the handlers and reached
\* main(): inside the try statement the finally clause runs before the
\* exception goes on; anywhere else nothing catches it
StackAfterExit ==
    IF stack[1].fn = "main" /\ stack[1].pc = "try"
    THEN <<Frame("main", "stop_all")>>
    ELSE <<>>

\* sys.exit(0)
HandlerExit ==
    /\ At({"h_exit"})
    /\ stack' = StackAfterExit
    /\ proc' = IF StackAfterExit = <<>> THEN "exited" ELSE proc
    /\ exit_code' = IF StackAfterExit = <<>> THEN 0 ELSE exit_code
    /\ hist' = [hist EXCEPT !.exits = @ + 1]
    /\ UNCHANGED <<gens, workloads, running, signal_received, fs, now, start_time,
                   errors, env_type, env_intensity>>

----------------------------------------------------------------------------
(* The execution units: _cpu_stress, _memory_stress, _network_stress and   *)
(* _storage_stress.  A unit is at "top" (the while self.running test),     *)
(* "iter" (inside the try body), "opened" (_storage_stress only: the file  *)
(* is created, its path not yet retained) or "done" (the function          *)
(* returned).  The units of one generator run the same function on the     *)
(* same object and differ in nothing but the thread_id of their log lines, *)
(* so self.threads is kept in a canonical order (by position in the loop). *)

PcRank(pc) ==
    CASE pc = "top" -> 0 [] pc = "iter" -> 1 [] pc = "opened" -> 2 [] OTHER -> 3

Before(a, b) ==
    \/ PcRank(a.pc) < PcRank(b.pc)
    \/ PcRank(a.pc) = PcRank(b.pc) /\ a.filename <= b.filename

RECURSIVE Insert(_, _)
Insert(th, s) ==
    IF s = <<>> THEN <<th>>
    ELSE IF Before(th, Head(s)) THEN <<th>> \o s
    ELSE <<Head(s)>> \o Insert(th, Tail(s))

RECURSIVE Canonical(_)
Canonical(s) == IF s = <<>> THEN <<>> ELSE Insert(Head(s), Canonical(Tail(s)))

Units == {<<g, t>> \in GenIds \X (1..(NumCpus + NetworkThreads)) : t <= Len(gens[g].threads)}

UnitAt(g, t, pcs) ==
    /\ proc = "running"
    /\ g \in GenIds /\ t \in 1..Len(gens[g].threads)
    /\ gens[g].threads[t].pc \in pcs

SetUnit(g, t, th) == [gens EXCEPT ![g].threads = Canonical([@ EXCEPT ![t] = th])]

\* mutant: a loop that never reads the flag
AfterLoopTestBlind(g, th) == [th EXCEPT !.pc = "iter"]

\* while self.running: into the body, or out of the function
AfterLoopTest(g, th) == [th EXCEPT !.pc = IF gens[g].running THEN "iter" ELSE "done"]

\* the end of the try body (after the sleep) leads back to the loop test
AfterIteration(th) == [th EXCEPT !.pc = "top", !.filename = 0]

\* mutant: the except clause leaves the loop (a break or a re-raise)
AfterExceptExits(th) == [th EXCEPT !.pc = "done", !.filename = 0]

\* except Exception as e: logger.error(...); ERROR_COUNT...inc(): the end of
\* the except clause leads back to the loop test
AfterExcept(th) == [th EXCEPT !.pc = "top", !.filename = 0]

\* ERROR_COUNT.labels(workload_type=...).inc()
ErrorsAfterExcept(kind) == [errors EXCEPT ![kind] = @ + 1]

UnitLoopTest(g, t) ==
    /\ UnitAt(g, t, {"top"})
    /\ gens' = SetUnit(g, t, AfterLoopTest(g, gens[g].threads[t]))
    /\ UNCHANGED <<workloads, running, signal_received, stack, proc, exit_code, fs,
                   now, start_time, errors, env_type, env_intensity, hist>>

\* one full iteration of _cpu_stress or _network_stress (the pass over the
\* endpoints, cut short or not by its own running test), the sleep included
UnitCompute(g, t) ==
    /\ UnitAt(g, t, {"iter"})
    /\ gens[g].kind \in {"cpu", "network"}
    /\ gens' = SetUnit(g, t, AfterIteration(gens[g].threads[t]))
    /\ UNCHANGED <<workloads, running, signal_received, stack, proc, exit_code, fs,
                   now, start_time, errors, env_type, env_intensity, hist>>

\* _memory_stress: chunk = bytearray(...); self.memory_chunks.append(chunk)
\* and the rest of the iteration
UnitAllocate(g, t) ==
    /\ UnitAt(g, t, {"iter"})
    /\ gens[g].kind = "memory"
    /\ gens[g].memory_chunks < MaxRetained
    /\ gens' = [SetUnit(g, t, AfterIteration(gens[g].threads[t])) EXCEPT
                   ![g].memory_chunks = @ + 1]
    /\ UNCHANGED <<workloads, running, signal_received, stack, proc, exit_code, fs,
                   now, start_time, errors, env_type, env_intensity, hist>>

\* _storage_stress: filename = f"/tmp/loadgen_storage_{int(time.time())}.dat";
\* open(filename, 'wb') creates (or truncates) the file
UnitOpen(g, t) ==
    /\ UnitAt(g, t, {"iter"})
    /\ gens[g].kind = "storage"
    /\ Len(gens[g].temp_files) < MaxRetained
    /\ gens' = SetUnit(g, t, [gens[g].threads[t] EXCEPT !.pc = "opened", !.filename = now])
    /\ fs' = fs \cup {<<now, g>>}
    /\ UNCHANGED <<workloads, running, signal_received, stack, proc, exit_code, now,
                   start_time, errors, env_type, env_intensity, hist>>

\* _storage_stress: the write succeeded; self.temp_files.append(filename) and
\* the rest of the iteration
UnitRetain(g, t) ==
    /\ UnitAt(g, t, {"opened"})
    /\ gens' = [SetUnit(g, t, AfterIteration(gens[g].threads[t]))
                   EXCEPT ![g].temp_files = Append(@, gens[g].threads[t].filename)]
    /\ UNCHANGED <<workloads, running, signal_received, stack, proc, exit_code, fs,
                   now, start_time, errors, env_type, env_intensity, hist>>

\* an Exception raised inside the try body (the allocation, a request, the
\* open or the write fails) and the except clause that catches it
UnitRaise(g, t) ==
    /\ UnitAt(g, t, {"iter", "opened"})
    /\ Raised < MaxErrors
    /\ gens' = SetUnit(g, t, AfterExcept(gens[g].threads[t]))
    /\ errors' = ErrorsAfterExcept(gens[g].kind)
    /\ UNCHANGED <<workloads, running, signal_received, stack, proc, exit_code, fs,
                   now, start_time, env_type, env_intensity, hist>>

\* a second passes
Tick ==
    /\ proc = "running"
    /\ now < MaxTime
    /\ now' = now + 1
    /\ UNCHANGED <<gens, workloads, running, signal_received, stack, proc, exit_code,
                   fs, start_time, errors, env_type, env_intensity, hist>>

UnitStep ==
    \/ \E u \in Units : UnitLoopTest(u[1], u[2])
    \/ \E u \in Units : UnitCompute(u[1], u[2])
    \/ \E u \in Units : UnitAllocate(u[1], u[2])
    \/ \E u \in Units : UnitOpen(u[1], u[2])
    \/ \E u \in Units : UnitRetain(u[1], u[2])
    \/ \E u \in Units : UnitRaise(u[1], u[2])

----------------------------------------------------------------------------
(* The program: main() under signals *)

NoHist == [stop_calls |-> 0, stop_rets |-> 0, cleanup_calls |-> 0, cleanup_rets |-> 0,
           signals |-> 0, exits |-> 0, ops |-> 0, start_calls |-> 0, handler_rets |-> 0,
           outcome |-> "none", released |-> 0]

\* the state after LoadGeneratorManager() in main(): no workload, the
\* handlers installed
InitCommon ==
    /\ gens = <<>> /\ workloads = <<>>
    /\ running = FALSE /\ signal_received = FALSE
    /\ proc = "running" /\ exit_code = 0
    /\ fs = {} /\ now = 0 /\ start_time = 0
    /\ errors = [w \in WorkloadTypes |-> 0]
    /\ hist = NoHist

Init ==
    /\ InitCommon
    /\ env_type \in LeafTypes \cup {"bogus"}
    /\ env_intensity = "medium"
    /\ stack = <<Frame("main", "add")>>

MainStep ==
    \/ MainAdd \/ StartAllCall \/ StartStep \/ StartRaise
    \/ MainPoll \/ MainSleep \/ MainExcept
    \/ StopAllCall \/ StopStep \/ CleanupAllCall \/ CleanupStep \/ MainReturn
    \/ HandlerFlag \/ HandlerExit

Next == MainStep \/ Signal \/ UnitStep \/ Tick

\* main() with a leaf workload type (or an unknown one), under signals
Spec == Init /\ [][Next]_vars

\* a unit at its loop test is scheduled again: the interpreter switches
\* between runnable threads, so no thread waits forever at the test
UnitTestsFlag == \E u \in Units : UnitLoopTest(u[1], u[2])

\* main() under signals, the worker threads scheduled fairly
SpecFair == Spec /\ WF_vars(UnitTestsFlag)

----------------------------------------------------------------------------
(* main() with WORKLOAD_TYPE=mixed (the default), no signal delivered *)

InitMixed ==
    /\ InitCommon
    /\ env_type = "mixed"
    /\ env_intensity = "medium"
    /\ stack = <<Frame("main", "add")>>

NextMixed ==
    \/ MainAdd \/ StartAllCall \/ StartStep \/ StartRaise
    \/ MainPoll \/ MainSleep \/ MainExcept
    \/ StopAllCall \/ StopStep \/ CleanupAllCall \/ CleanupStep \/ MainReturn
    \/ UnitStep \/ Tick

SpecMixed == InitMixed /\ [][NextMixed]_vars

----------------------------------------------------------------------------
(* A caller that makes any sequence of add_workload, start_all, stop_all   *)
(* and cleanup_all calls on one Manager, no signal delivered               *)

\* the units start() of a generator of this type spawns, children included
UnitsOfType(type) ==
    IF type = "mixed"
    THEN SeqSum([c \in 1..Len(MixedChildren) |-> ThreadCount(MixedChildren[c])])
    ELSE ThreadCount(type)

\* the units all generators constructed so far own once started
UnitsAdded == SeqSum([g \in 1..Len(gens) |-> ThreadCount(gens[g].kind)])

\* add_workload(type, intensity): raises ValueError for an unknown type
\* before it touches anything
ApiAdd(type) ==
    /\ At({"idle"})
    /\ hist.ops < MaxOps
    /\ UnitsAdded + UnitsOfType(type) <= MaxUnits
    /\ IF type \in WorkloadTypes
       THEN /\ gens' = GensAfterAdd(type)
            /\ workloads' = WorkloadsAfterAdd(type)
       ELSE UNCHANGED <<gens, workloads>>
    /\ hist' = [hist EXCEPT !.ops = @ + 1,
                            !.outcome = IF type \in WorkloadTypes
                                        THEN "returned" ELSE "ValueError"]
    /\ UNCHANGED <<running, signal_received, stack, proc, exit_code, fs, now,
                   start_time, errors, env_type, env_intensity>>

\* the caller starts only generators that were never started: start() of a
\* generator that is or was Running is outside the documented use
MayStart == \A n \in 1..Len(StartStopOrder) : gens[StartStopOrder[n]].life = "idle"

ApiCall(call) ==
    /\ At({"idle"})
    /\ hist.ops < MaxOps
    /\ call = "start_all" => MayStart
    /\ stack' = Goto(call)
    /\ hist' = [hist EXCEPT !.ops = @ + 1]
    /\ UNCHANGED <<gens, workloads, running, signal_received, proc, exit_code, fs,
                   now, start_time, errors, env_type, env_intensity>>

InitApi ==
    /\ InitCommon
    /\ env_type = "none"
    /\ env_intensity = "medium"
    /\ stack = <<Frame("api", "idle")>>

NextApi ==
    \/ \E type \in WorkloadTypes \cup {"bogus"} : ApiAdd(type)
    \/ \E call \in {"start_all", "stop_all", "cleanup_all"} : ApiCall(call)
    \/ StartAllCall \/ StartStep \/ StartRaise \/ StopAllCall \/ StopStep
    \/ CleanupAllCall \/ CleanupStep
    \/ UnitStep \/ Tick

SpecApi == InitApi /\ [][NextApi]_vars

----------------------------------------------------------------------------
(* main() up to the run loop, for every WORKLOAD_TYPE and LOAD_INTENSITY:  *)
(* the generators are constructed with the environment's intensity label   *)
(* and started                                                              *)

InitConfig ==
    /\ InitCommon
    /\ env_type \in WorkloadTypes
    /\ env_intensity \in IntensityLabels
    /\ stack = <<Frame("main", "add")>>

NextConfig == MainAdd \/ StartAllCall \/ StartStep

SpecConfig == InitConfig /\ [][NextConfig]_vars

----------------------------------------------------------------------------
(* Properties *)

\* main() got as far as calling start_all before the process ended
RunLoopEntered == hist.start_calls >= 1

\* C1: on every exit path of the run loop (natural completion, a signal
\* delivered after start_all, an error in the polling loop) stop_all has been
\* invoked exactly once and cleanup_all exactly once when the process exits.
C1_TeardownExactlyOnce ==
    (proc = "exited" /\ RunLoopEntered) =>
        /\ hist.stop_calls = 1
        /\ hist.cleanup_calls = 1 /\ hist.cleanup_rets = 1

\* a generator holds no artifact: no retained chunk, no retained path, and no
\* file it wrote is left on disk
NoArtifacts(g) ==
    /\ gens[g].memory_chunks = 0
    /\ gens[g].temp_files = <<>>
    /\ \A x \in fs : x[2] # g

\* C2: whenever the process has terminated after a termination signal, every
\* generator is stopped and cleaned up: none is Running, no chunk is
\* retained and no temp file written by a generator still exists.
C2_CleanAfterSignal ==
    (proc = "exited" /\ hist.signals >= 1) =>
        \A g \in GenIds : ~gens[g].running /\ NoArtifacts(g)

\* the activations of stop_all on the main thread's stack
StopAllActivations == {n \in 1..Len(stack) : stack[n].pc = "stopping"}

\* C3: in every reachable state at most one activation of stop_all is in
\* progress: the handler never enters stop_all while another stop_all (the
\* run loop's, or an earlier handler's) has not returned.
C3_SingleStopAll == Cardinality(StopAllActivations) <= 1

\* C4: a Memory or Storage generator that was started, then stopped, then
\* cleaned up holds no artifact, and keeps none afterwards, whatever its unit
\* did and whether or not the unit had exited when stop() returned.
C4_StopCleanupLeavesNothing ==
    \A g \in GenIds :
        (gens[g].kind \in {"memory", "storage"} /\ gens[g].life = "cleaned")
            => NoArtifacts(g)

\* a generator is active: its flag is set, one of its units has not exited,
\* or it holds an artifact
Active(g) ==
    \/ gens[g].running
    \/ \E t \in 1..Len(gens[g].threads) : IsAlive(gens[g].threads[t])
    \/ ~NoArtifacts(g)

\* the generators constructed by add_workload(key, ...) itself
AddedUnder(key) == {g \in GenIds : gens[g].key = key /\ gens[g].kind = key}

\* the generators add_workload has replaced in the dict
Superseded == {g \in GenIds : gens[g].kind = gens[g].key /\ g \notin Range(Values)}

\* C6: for every key at most one generator constructed under it is active,
\* and a generator that add has replaced was stopped and cleaned first.
C6_OneActivePerKey ==
    /\ \A key \in WorkloadTypes :
           Cardinality({g \in AddedUnder(key) : Active(g)}) <= 1
    /\ \A g \in Superseded : ~Active(g)

\* the paths a generator retains or is about to retain
PathsOf(g) ==
    Range(gens[g].temp_files)
        \cup {gens[g].threads[t].filename :
                 t \in {u \in 1..Len(gens[g].threads) : gens[g].threads[u].pc = "opened"}}

\* C7: no temp file path is held by two generators, and no file on disk was
\* written by two generators (so no cleanup removes another generator's file).
C7_NoSharedArtifacts ==
    /\ \A g1, g2 \in GenIds : g1 # g2 => PathsOf(g1) \cap PathsOf(g2) = {}
    /\ \A x, y \in fs : x[1] = y[1] => x[2] = y[2]

\* some unit of generator g has not exited
HasLiveUnit(g) == \E t \in 1..Len(gens[g].threads) : IsAlive(gens[g].threads[t])

\* C5: stop() terminates whether or not the units exit (a stop_all in
\* progress can always take its next step: no wait for a unit is unbounded),
\* and once stop_all has returned the Mixed generator and its four children
\* are all Stopped with the running flag cleared.
C5_StopTerminates ==
    /\ At({"stopping"}) => ENABLED StopStep
    /\ hist.stop_rets >= 1 =>
           \A g \in GenIds : ~gens[g].running /\ gens[g].life # "started"

\* stop_all has returned, all five objects are Stopped, and a unit of a
\* child is still alive: it was abandoned by the bounded wait
C5_Witness ==
    /\ hist.stop_rets >= 1
    /\ Len(gens) = 1 + Len(MixedChildren)
    /\ \A g \in GenIds : ~gens[g].running /\ gens[g].life = "stopped"
    /\ \E g \in GenIds : gens[g].kind = "network" /\ HasLiveUnit(g)

\* C8: cleanup_all begins only after a stop_all call has returned, and the
\* generator that cleanup() is about to be applied to has its running flag
\* cleared.
C8_CleanupOnlyStopped ==
    /\ hist.cleanup_calls >= 1 => hist.stop_rets >= 1
    /\ (At({"cleaning"}) /\ Top.i <= Len(CleanupOrder)) =>
           ~gens[CleanupOrder[Top.i]].running

\* the run loop's cleanup_all is about to clean a generator after a signal,
\* with a unit of that generator still alive
C8_Witness ==
    /\ At({"cleaning"}) /\ Top.i = 1 /\ Len(CleanupOrder) >= 1
    /\ signal_received
    /\ HasLiveUnit(CleanupOrder[1])

\* C9: the handler sets signal_received before it calls stop_all, the
\* process is ended by a handler only after that handler's stop_all has
\* returned (with every managed generator's flag cleared), and
\* signal_received never goes back to false.
C9_HandlerOrder ==
    [][/\ signal_received => signal_received'
       /\ (hist'.stop_calls > hist.stop_calls /\ Top.fn = "handler") => signal_received
       /\ hist'.exits > hist.exits =>
              /\ Top.fn = "handler" /\ signal_received
              /\ hist.handler_rets > hist.exits
              /\ \A n \in 1..Len(StartStopOrder) : ~gens[StartStopOrder[n]].running]_vars

\* a handler has ended the process after its stop_all stopped a started generator
C9_Witness ==
    /\ proc = "exited" /\ hist.exits >= 1 /\ hist.handler_rets >= 1
    /\ signal_received
    /\ \E g \in GenIds : gens[g].life = "stopped"

\* the units of generator g (in the generators gs) that are at pc
NumAt(gs, g, pc) == Cardinality({t \in 1..Len(gs[g].threads) : gs[g].threads[t].pc = pc})

\* a step in which an except clause of a unit's loop counted an error
UnitErrorStep == errors' # errors /\ stack' = stack

\* C10: an error raised inside an iteration never ends the unit: the step
\* increments the error counter of that workload type by exactly one (and no
\* other), puts the unit back at the loop-top test and ends no unit; and no
\* unit leaves its loop while its generator's running flag is set.
C10_ErrorsContained ==
    [][/\ UnitErrorStep =>
              \E g \in GenIds :
                  /\ errors' = [errors EXCEPT ![gens[g].kind] = @ + 1]
                  /\ NumAt(gens', g, "top") = NumAt(gens, g, "top") + 1
                  /\ \A h \in GenIds : NumAt(gens', h, "done") = NumAt(gens, h, "done")
       /\ \A g \in GenIds :
              gens[g].running => NumAt(gens', g, "done") = NumAt(gens, g, "done")]_vars

\* a unit's error has been counted while the run loop is still polling, and a
\* unit of that generator is inside a later iteration
C10_Witness ==
    /\ At({"poll", "sleep"}) /\ Top.fn = "main"
    /\ \E g \in GenIds :
           /\ errors[gens[g].kind] = 1
           /\ gens[g].running
           /\ NumAt(gens, g, "iter") >= 1

\* C16: resolving an intensity label never fails and every constructed
\* generator holds the resolved profile: a recognized label gives the row of
\* that label, any other label gives a profile equal to the medium row in
\* each of its fields.
C16_IntensityResolves ==
    /\ (env_type \in WorkloadTypes /\ ~At({"add"})) => gens # <<>>
    /\ \A g \in GenIds :
           LET label == gens[g].intensity
               medium == [cpu_percent |-> 50, memory_mb |-> 250, duration |-> 60]
           IN /\ label = env_intensity
              /\ label = "low" =>
                     gens[g].config = [cpu_percent |-> 20, memory_mb |-> 100, duration |-> 30]
              /\ label = "medium" => gens[g].config = medium
              /\ label = "high" =>
                     gens[g].config = [cpu_percent |-> 80, memory_mb |-> 500, duration |-> 120]
              /\ label = "custom" =>
                     gens[g].config = [cpu_percent |-> 70, memory_mb |-> 300, duration |-> 90]
              /\ label \notin {"low", "medium", "high", "custom"} =>
                     /\ DOMAIN gens[g].config = DOMAIN medium
                     /\ \A field \in DOMAIN medium : gens[g].config[field] = medium[field]

\* a Mixed generator and its four children were constructed and started with
\* a label that is not a key of the table
C16_Witness ==
    /\ env_intensity = "extreme"
    /\ Len(gens) = 1 + Len(MixedChildren)
    /\ \A g \in GenIds : gens[g].running /\ gens[g].config.memory_mb = 250

\* C11: a Mixed generator forwards start (and stop) to each of its four
\* children whatever happens in one of them: once the start of a Mixed
\* generator is over every child has received start, and once its stop is
\* over no child is running.
C11_MixedForwardsToAll ==
    \A g \in GenIds :
        gens[g].kind = "mixed" =>
            /\ (gens[g].life # "idle" /\ ~At({"starting"})) =>
                   \A c \in Range(gens[g].workloads) : gens[c].life # "idle"
            /\ (gens[g].life \in {"stopped", "cleaned"} /\ ~At({"stopping"})) =>
                   \A c \in Range(gens[g].workloads) : ~gens[c].running

\* the places of the dict w that hold key
EntriesOf(w, key) == {n \in 1..Len(w) : w[n].key = key}

\* the generators the dict w holds under key
StoredUnder(w, key) == {w[n].gen : n \in EntriesOf(w, key)}

\* what add_workload(type, ...) is to do to the Manager
AddEffect(type) ==
    IF type \in WorkloadTypes
    THEN /\ Cardinality(EntriesOf(workloads', type)) = 1
         /\ \A id \in StoredUnder(workloads', type) :
                /\ id \notin GenIds /\ id \in 1..Len(gens')
                /\ gens'[id].kind = type
                /\ ~gens'[id].running /\ gens'[id].threads = <<>>
         /\ \A key \in WorkloadTypes \ {type} :
                StoredUnder(workloads', key) = StoredUnder(workloads, key)
         /\ \A g \in GenIds : gens'[g] = gens[g]
         /\ hist'.outcome = "returned"
    ELSE /\ UNCHANGED <<gens, workloads, running, signal_received, fs>>
         /\ hist'.outcome = "ValueError"

\* C12: add_workload with a type that is not a key of workload_map raises
\* ValueError and leaves the dict and every generator as they were (nothing
\* is constructed or started); with a recognized type it leaves exactly one
\* entry under that key, holding a new, idle generator of that variant, and
\* touches no other entry and no existing generator.
C12_AddUnknownType ==
    [][\A type \in WorkloadTypes \cup {"bogus"} : ApiAdd(type) => AddEffect(type)]_vars

\* the last call was an add of an unknown type, made while a generator added
\* before was running with a unit inside an iteration
C12_Witness ==
    /\ hist.outcome = "ValueError"
    /\ workloads # <<>>
    /\ \E g \in Range(Values) : gens[g].running /\ NumAt(gens, g, "iter") >= 1

\* the run so far saw no termination signal and no error
QuietRun == hist.signals = 0 /\ Raised = 0

\* main() is past the polling loop
PastLoop == At({"stop_all", "stopping", "cleanup_all", "cleaning", "return"}) \/ proc = "exited"

\* C13: in a run with no signal and no error, main() leaves the polling loop
\* and calls stop_all or cleanup_all only when DURATION seconds have passed
\* since start_all returned; and when such a run has ended, both have been
\* called (once each).
C13_TeardownAfterDuration ==
    (QuietRun /\ RunLoopEntered) =>
        /\ (PastLoop \/ hist.stop_calls >= 1 \/ hist.cleanup_calls >= 1) =>
               now - start_time >= Duration
        /\ proc = "exited" => hist.stop_calls = 1 /\ hist.cleanup_calls = 1

\* a run without signal or error has ended, DURATION seconds after start_all
C13_Witness ==
    /\ QuietRun /\ RunLoopEntered
    /\ proc = "exited" /\ exit_code = 0
    /\ hist.cleanup_rets = 1
    /\ start_time < now

\* the step taken is cleanup() of generator g, made by cleanup_all
CleanupApplied(g) ==
    /\ At({"cleaning"}) /\ Top.i <= Len(CleanupOrder) /\ CleanupOrder[Top.i] = g
    /\ stack' # stack /\ hist'.signals = hist.signals

\* C14: cleanup() is idempotent for each of the five variants: the state
\* that cleanup() of a stopped generator leaves is the state a second
\* cleanup() of it, made right then, would leave (same retained lists, same
\* files on disk, nothing more to release).
C14_CleanupIdempotent ==
    [][\A g \in GenIds :
          (CleanupApplied(g) /\ ~gens[g].running) =>
              /\ GenCleanup(g)' = gens'
              /\ FsAfterCleanup(g)' = fs'
              /\ Released(g)' = 0]_vars

\* cleanup_all has returned after the Memory child released a chunk and the
\* Storage child a file
C14_Witness ==
    /\ hist.cleanup_rets >= 1
    /\ hist.released >= 2
    /\ \A g \in GenIds : gens[g].memory_chunks = 0 /\ gens[g].temp_files = <<>>

\* C15: start_all on a Manager without workloads is a no-op: it returns to
\* its caller after a warning, raises nothing, spawns nothing and leaves the
\* dict, the running flag and signal_received as they were.
C15_StartAllEmptyNoOp ==
    [][(At({"start_all"}) /\ workloads = <<>> /\ stack' # stack) =>
           /\ UNCHANGED <<gens, workloads, running, signal_received, fs, errors, proc>>
           /\ stack' = Goto(AfterCall(Top.fn, "start_all"))
           /\ hist'.outcome = "warned"]_vars

\* start_all has just returned with the warning, the Manager still empty
C15_Witness ==
    /\ hist.outcome = "warned"
    /\ At({"idle"})
    /\ workloads = <<>> /\ gens = <<>> /\ ~running

\* the units of generator g (in the generators gs) inside an iteration
InIteration(gs, g) == NumAt(gs, g, "iter") + NumAt(gs, g, "opened")

\* the ids of the objects main() constructs: a generator and, for a Mixed
\* one, its children
MainGenIds == 1..(1 + Len(MixedChildren))

\* generator id has its flag cleared and a unit at the loop test
FlagClearedAtTest(id) ==
    id \in GenIds /\ ~gens[id].running /\ NumAt(gens, id, "top") >= 1

\* no unit of generator id is at the loop test, or the process has ended
NoneAtTest(id) ==
    proc = "exited" \/ id \notin GenIds \/ NumAt(gens, id, "top") = 0

\* C17: cancellation is cooperative.  While a generator's running flag is
\* cleared none of its units enters an iteration; a unit ends only by
\* leaving its loop at the loop test, with the flag cleared, never from
\* inside an iteration; no thread is removed; and a unit that is at the loop
\* test with the flag cleared goes on to exit (as long as the process lives).
C17_CooperativeCancel ==
    /\ [][\A g \in GenIds :
             /\ ~gens[g].running => InIteration(gens', g) <= InIteration(gens, g)
             /\ Len(gens'[g].threads) >= Len(gens[g].threads)
             /\ NumAt(gens', g, "done") # NumAt(gens, g, "done") =>
                    /\ ~gens[g].running
                    /\ NumAt(gens', g, "done") = NumAt(gens, g, "done") + 1
                    /\ NumAt(gens', g, "top") + 1 = NumAt(gens, g, "top")
                    /\ InIteration(gens', g) = InIteration(gens, g)]_vars
    /\ \A id \in MainGenIds : FlagClearedAtTest(id) ~> NoneAtTest(id)

\* stop() has returned, a unit exited at its loop test and a sibling that
\* stop() gave up waiting for is still inside its iteration
C17_Witness ==
    \E g \in GenIds :
        /\ gens[g].life = "stopped" /\ ~gens[g].running
        /\ NumAt(gens, g, "done") >= 1
        /\ NumAt(gens, g, "iter") >= 1
        /\ proc = "running"

\* C18: a unit that stop_all is waiting for holds back nothing but itself:
\* while stop_all waits in join for a unit that is still alive, every
\* generator covered by this stop_all has already had its flag cleared (so
\* none of their units enters an iteration in the meantime).
C18_StuckUnitDelaysOnlyItself ==
    (/\ At({"stopping"}) /\ Top.i <= Len(StartStopOrder) /\ Top.k >= 1
     /\ IsAlive(gens[StartStopOrder[Top.i]].threads[Top.k]))
        => \A n \in 1..Len(StartStopOrder) : ~gens[StartStopOrder[n]].running

\* the step taken is a step of stop_all
StopWalkStep == At({"stopping"}) /\ stack' # stack /\ hist'.signals = hist.signals

\* C19: stop_all is safe to repeat and safe on generators never started.  No
\* step of stop_all spawns or drops a thread, releases an artifact or sets
\* a running flag; a stop_all in progress can always take its next step;
\* and a stop_all made after another stop_all has returned changes no
\* generator at all.
C19_StopAllRepeatable ==
    /\ [](At({"stopping"}) => ENABLED StopStep)
    /\ [][StopWalkStep =>
             /\ Len(gens') = Len(gens) /\ fs' = fs /\ hist'.released = hist.released
             /\ \A g \in GenIds :
                    /\ gens'[g].running => gens[g].running
                    /\ gens'[g].threads = gens[g].threads
                    /\ gens'[g].memory_chunks = gens[g].memory_chunks
                    /\ gens'[g].temp_files = gens[g].temp_files
             /\ hist.stop_rets >= 1 => gens' = gens]_vars

\* the handler's stop_all and then the finally clause's stop_all have both
\* returned, on a generator that had been started
C19_Witness ==
    /\ hist.stop_rets >= 2 /\ hist.handler_rets >= 1
    /\ At({"cleanup_all"}) /\ Top.fn = "main"
    /\ \E g \in GenIds : gens[g].life = "stopped" /\ gens[g].threads # <<>>

\* C20: once signal_received is set no generator is constructed, none gets
\* its running flag set and no thread is spawned: a start_all that the
\* signal interrupted is never resumed.
C20_NoStartAfterSignal ==
    [][signal_received =>
           /\ Len(gens') = Len(gens)
           /\ running' => running
           /\ \A g \in GenIds :
                  /\ gens'[g].running => gens[g].running
                  /\ Len(gens'[g].threads) = Len(gens[g].threads)]_vars

\* the process has ended after a signal that interrupted start_all between
\* two of the Network generator's three thread starts
C20_Witness ==
    /\ signal_received /\ proc = "exited" /\ Raised = 0
    /\ \E g \in GenIds :
           /\ gens[g].kind = "network"
           /\ Len(gens[g].threads) \in 1..(NetworkThreads - 1)
           /\ ~gens[g].running

====
